---- MODULE Spec2Model ----
(***************************************************************************)
(* A model of the gVCF filter: the streaming filter filter_and_count and   *)
(* its predicates (src/src/filter_one_GZ.py, src/src/filter.py), the       *)
(* per-file command main (filter_one_GZ.py) and the batch main (filter.py).*)
(*                                                                         *)
(* Text is a sequence of characters, each a one-character string; three    *)
(* characters outside ASCII are written by their code point ("U+0662").    *)
(* A file's content is the sequence of its decompressed bytes, one element *)
(* per encoded character; BadByte is a byte that is no valid UTF-8.        *)
(***************************************************************************)
EXTENDS Integers, Sequences, FiniteSets, TLC

VARIABLES
    \* ---- the per-file command (filter_one_GZ.py) ----
    argc,         \* len(sys.argv)
    in_exists,    \* in_gz.exists()
    fin,          \* decompressed content of the input file
    rest,         \* the part of fin not read yet
    fin_open,     \* the input stream is open
    fout_open,    \* the output stream is open
    out_dir,      \* out_gz.parent exists
    fout,         \* decompressed content of the output file
    out_mtime,    \* MTIME field of the output file's gzip header
    n_records, gt_missing, after_gt, after_dp, after_gq,
    counts,       \* <<>> or <<the dict filter_and_count returned>>
    pc,           \* "start", "loop", "exited"
    exc,          \* the exception that ended filter_and_count, or "none"
    status,       \* exit status of the command, -1 while it runs
    diag,         \* what the command printed on stderr
    now,          \* the clock, in seconds
    run,          \* "first" or "second" invocation on the same paths
    prev,         \* <<>> or <<what the first invocation left>>
    \* ---- one call of a predicate, or of extract_gt_dp_gq ----
    call,         \* [fn, arg]: the call to make
    ret,          \* a predicate: "pending", "True", "False" or the exception
                  \* raised; extract_gt_dp_gq: <<>>, then <<the tuple returned>>
    \* ---- the batch command (filter.py) ----
    cohorts,      \* cohorts[c][s]: the .gz files matching sample s of cohort c
    ci, si,       \* cohort and sample being processed
    rows,         \* rows collected for cohort ci
    tsv,          \* tsv[c]: <<>> or <<the rows written for cohort c>>
    bpc,          \* "cohort", "done", "aborted"
    bexc          \* the exception that aborted the batch, or "none"

fvars == <<argc, in_exists, fin, rest, fin_open, fout_open, out_dir, fout,
           out_mtime, n_records, gt_missing, after_gt, after_dp, after_gq,
           counts, pc, exc, status, diag, now, run, prev>>
pvars == <<call, ret>>
bvars == <<cohorts, ci, si, rows, tsv, bpc, bexc>>
vars == <<fvars, pvars, bvars>>

(* ------------------------------ bounds ------------------------------- *)

\* number of lines of a generated input file
MaxLines == 2
\* length of a generated DP or GQ string
MaxLen == 3
\* number of FORMAT keys and of sample values of a generated call
MaxKeys == 3
\* cohorts and samples per cohort of a generated batch
NCohorts == 2
NSamples == 2

(* ---------------------------- characters ----------------------------- *)

TAB == "\t"
LF == "\n"
CR == "\r"
\* a byte that is not valid UTF-8, and what errors="replace" decodes it to
BadByte == "0xFF"
Replacement == "U+FFFD"
\* ARABIC-INDIC DIGIT ONE and TWO (category Nd), SUPERSCRIPT TWO (category No,
\* Numeric_Type=Digit)
Arabic1 == "U+0661"
Arabic2 == "U+0662"
Super2 == "U+00B2"

AsciiDigits == {"0", "1", "2", "3", "4", "5", "6", "7", "8", "9"}
\* the characters int() reads as decimal digits
DecimalChars == AsciiDigits \cup {Arabic1, Arabic2}
\* the characters str.isdigit() accepts
DigitChars == DecimalChars \cup {Super2}

DigitVal(ch) ==
    CASE ch = "0" -> 0 [] ch = "1" -> 1 [] ch = "2" -> 2 [] ch = "3" -> 3
      [] ch = "4" -> 4 [] ch = "5" -> 5 [] ch = "6" -> 6 [] ch = "7" -> 7
      [] ch = "8" -> 8 [] ch = "9" -> 9 [] ch = Arabic1 -> 1 [] ch = Arabic2 -> 2

Min(S) == CHOOSE x \in S : \A y \in S : x <= y
Max(S) == CHOOSE x \in S : \A y \in S : x >= y

(* ------------------------- optional strings -------------------------- *)

\* None, and a string that is present
Absent == [present |-> FALSE, s |-> <<>>]
Some(s) == [present |-> TRUE, s |-> s]

(* ----------------------------- str methods --------------------------- *)

\* s.isdigit()
isdigit(s) == Len(s) > 0 /\ \A i \in 1..Len(s) : s[i] \in DigitChars

\* int(s) raises ValueError (s is a string isdigit accepts)
int_raises(s) == \E i \in 1..Len(s) : s[i] \notin DecimalChars

\* int(s), for a string of decimal digits
RECURSIVE int(_)
int(s) ==
    IF s = <<>> THEN 0
    ELSE int(SubSeq(s, 1, Len(s) - 1)) * 10 + DigitVal(s[Len(s)])

\* s.startswith(ch)
startswith(s, ch) == Len(s) > 0 /\ s[1] = ch

\* s.rstrip(ch)
RECURSIVE rstrip(_, _)
rstrip(s, ch) ==
    IF Len(s) > 0 /\ s[Len(s)] = ch THEN rstrip(SubSeq(s, 1, Len(s) - 1), ch)
    ELSE s

\* s.split(sep)
RECURSIVE split(_, _)
split(s, sep) ==
    LET at == {i \in 1..Len(s) : s[i] = sep} IN
    IF at = {} THEN <<s>>
    ELSE <<SubSeq(s, 1, Min(at) - 1)>> \o split(SubSeq(s, Min(at) + 1, Len(s)), sep)

\* sep.join(parts)
RECURSIVE join(_, _)
join(parts, sep) ==
    IF parts = <<>> THEN <<>>
    ELSE IF Len(parts) = 1 THEN parts[1]
    ELSE parts[1] \o <<sep>> \o join(Tail(parts), sep)

(* ------------------------- criterion helpers ------------------------- *)

\* is_heterozygous taking every phased genotype with an alternate allele
is_heterozygous_any_alt(gt) ==
    gt.present /\ gt.s \in {<<"0", "|", "1">>, <<"1", "|", "0">>, <<"1", "|", "1">>}

\* is_heterozygous(gt): gt in {"0|1", "1|0"}
is_heterozygous(gt) == gt.present /\ gt.s \in {<<"0", "|", "1">>, <<"1", "|", "0">>}

\* the test for a missing genotype without None: gt in (".", "./.", ".|.")
gt_is_missing_no_none(gt) ==
    gt.present /\ gt.s \in {<<".">>, <<".", "/", ".">>, <<".", "|", ".">>}

\* gt in (None, ".", "./.", ".|.")
gt_is_missing(gt) ==
    ~gt.present \/ gt.s \in {<<".">>, <<".", "/", ".">>, <<".", "|", ".">>}

\* dp_passes(dp): dp is not None and dp.isdigit() and int(dp) > 20, evaluated
\* left to right; "ValueError" when int raises
dp_passes(dp) ==
    IF ~dp.present THEN "False"
    ELSE IF ~isdigit(dp.s) THEN "False"
    ELSE IF int_raises(dp.s) THEN "ValueError"
    ELSE IF int(dp.s) > 20 THEN "True" ELSE "False"

\* gq_passes(gq): gq is not None and gq.isdigit() and int(gq) >= 30
gq_passes(gq) ==
    IF ~gq.present THEN "False"
    ELSE IF ~isdigit(gq.s) THEN "False"
    ELSE IF int_raises(gq.s) THEN "ValueError"
    ELSE IF int(gq.s) >= 30 THEN "True" ELSE "False"

(* ---------------------------- VCF helpers ---------------------------- *)

GT == <<"G", "T">>
DP == <<"D", "P">>
GQ == <<"G", "Q">>

\* the lookup with the first occurrence of a key winning
zip_get_first(keys, vals, k) ==
    LET n == Min({Len(keys), Len(vals)})
        at == {i \in 1..n : keys[i] = k}
    IN IF at = {} THEN Absent ELSE Some(vals[Min(at)])

\* dict(zip(keys, vals)).get(k)
zip_get(keys, vals, k) ==
    LET n == Min({Len(keys), Len(vals)})
        at == {i \in 1..n : keys[i] = k}
    IN IF at = {} THEN Absent ELSE Some(vals[Max(at)])

\* extract_gt_dp_gq(fmt, sample)
extract_gt_dp_gq(fmt, sample) ==
    LET keys == split(fmt, ":")
        vals == split(sample, ":")
    IN [gt |-> zip_get(keys, vals, GT),
        dp |-> zip_get(keys, vals, DP),
        gq |-> zip_get(keys, vals, GQ)]

(* --------------------------- text streams ---------------------------- *)

\* bytes.decode("utf-8", errors="replace"), one element per character
decode(b) == [i \in 1..Len(b) |-> IF b[i] = BadByte THEN Replacement ELSE b[i]]

\* readline with no translation of line ends (newline="")
readline_raw(s) ==
    LET brk == {i \in 1..Len(s) : s[i] \in {LF, CR}} IN
    IF brk = {} THEN [line |-> decode(s), raw |-> s, rest |-> <<>>]
    ELSE LET i == Min(brk)
             e == IF s[i] = CR /\ i < Len(s) /\ s[i + 1] = LF THEN i + 1 ELSE i
         IN [line |-> decode(SubSeq(s, 1, e)),
             raw |-> SubSeq(s, 1, e),
             rest |-> SubSeq(s, e + 1, Len(s))]

\* One iteration of "for line in fin" over the unread content s (not empty):
\* the stream was opened with newline=None, so a line ends at LF, CR LF or a
\* lone CR, each handed to the program as LF; the last line may have no end.
\* line: what the program sees, raw: the bytes it came from, rest: what is left.
readline(s) ==
    LET brk == {i \in 1..Len(s) : s[i] \in {LF, CR}} IN
    IF brk = {} THEN [line |-> decode(s), raw |-> s, rest |-> <<>>]
    ELSE LET i == Min(brk)
             e == IF s[i] = CR /\ i < Len(s) /\ s[i + 1] = LF THEN i + 1 ELSE i
         IN [line |-> decode(SubSeq(s, 1, i - 1)) \o <<LF>>,
             raw |-> SubSeq(s, 1, e),
             rest |-> SubSeq(s, e + 1, Len(s))]

\* fout.write(line): the stream was opened with newline=None, which writes LF
\* as os.linesep (LF on POSIX); U+FFFD is written as its own UTF-8 encoding
write(f, line) == f \o line

\* gzip.open(out_gz, "wt"): the content of an existing file is dropped
open_wt(f) == <<>>

(* ------------------- filter + progressive counting ------------------- *)

\* the counters left as the previous invocation set them
keep_counters(c) == c

\* n_records = gt_missing = after_gt = after_dp = after_gq = 0
zero_counters(c) ==
    [n_records |-> 0, gt_missing |-> 0, after_gt |-> 0, after_dp |-> 0, after_gq |-> 0]

\* the result of one iteration of the loop: the counters, whether the line was
\* written, and the exception raised ("none": the loop goes on)
Iter(c, w, e) == [c |-> c, write |-> w, exc |-> e]

\* the funnel without the "continue" after a failed heterozygosity test
funnel_no_continue(c, e) ==
    LET c1 == [c EXCEPT !.n_records = @ + 1]
        c2 == IF is_heterozygous(e.gt) THEN [c1 EXCEPT !.after_gt = @ + 1] ELSE c1
    IN IF dp_passes(e.dp) = "ValueError" THEN Iter(c2, FALSE, "ValueError")
       ELSE IF dp_passes(e.dp) = "False" THEN Iter(c2, FALSE, "none")
       ELSE Iter([c2 EXCEPT !.after_dp = @ + 1], FALSE, "none")

\* the loop body from "n_records += 1" on, for the extracted (gt, dp, gq)
funnel(c, e) ==
    LET c1 == [c EXCEPT !.n_records = @ + 1]
        c2 == IF gt_is_missing(e.gt) THEN [c1 EXCEPT !.gt_missing = @ + 1] ELSE c1
    IN IF ~is_heterozygous(e.gt) THEN Iter(c2, FALSE, "none")
       ELSE LET c3 == [c2 EXCEPT !.after_gt = @ + 1] IN
       IF dp_passes(e.dp) = "ValueError" THEN Iter(c3, FALSE, "ValueError")
       ELSE IF dp_passes(e.dp) = "False" THEN Iter(c3, FALSE, "none")
       ELSE LET c4 == [c3 EXCEPT !.after_dp = @ + 1] IN
       IF gq_passes(e.gq) = "ValueError" THEN Iter(c4, FALSE, "ValueError")
       ELSE IF gq_passes(e.gq) = "False" THEN Iter(c4, FALSE, "none")
       ELSE Iter([c4 EXCEPT !.after_gq = @ + 1], TRUE, "none")

\* the loop body counting the record before the test on the number of fields
loop_body_count_first(c, line) ==
    IF startswith(line, "#") THEN Iter(c, TRUE, "none")
    ELSE LET parts == split(rstrip(line, LF), TAB)
             c1 == [c EXCEPT !.n_records = @ + 1]
         IN IF Len(parts) < 10 THEN Iter(c1, FALSE, "none")
            ELSE funnel(c, extract_gt_dp_gq(parts[9], parts[10]))

\* one iteration of "for line in fin": parts[8] and parts[9] of the source are
\* parts[9] and parts[10] here (sequences start at 1)
loop_body(c, line) ==
    IF startswith(line, "#") THEN Iter(c, TRUE, "none")
    ELSE LET parts == split(rstrip(line, LF), TAB) IN
         IF Len(parts) < 10 THEN Iter(c, FALSE, "none")
         ELSE funnel(c, extract_gt_dp_gq(parts[9], parts[10]))

\* the dict filter_and_count returns
counts_dict(c) ==
    [N_Records |-> c.n_records, GT_Missing |-> c.gt_missing,
     After_GT_Het |-> c.after_gt, After_DP |-> c.after_dp,
     After_GQ |-> c.after_gq, Het_Count |-> c.after_gq]

\* the exceptions "except OSError" catches
IsOSError(e) == e \in {"OSError", "PermissionError", "BadGzipFile"}

(* --------------------------- input files ----------------------------- *)

c == <<"c">>
Het01 == <<"0", "|", "1">>
Het10 == <<"1", "|", "0">>
Fmt3 == join(<<GT, DP, GQ>>, ":")
\* a data line of ten fields, FORMAT and the sample column last
Row(fmt, sample) == join(<<c, c, c, c, c, c, c, c, fmt, sample>>, TAB)

\* a record that passes the three filters, and a record cut after FORMAT
PassRow == Row(Fmt3, join(<<Het01, <<"2", "1">>, <<"3", "0">> >>, ":"))
ShortRow == join(<<c, c, c, c, c, c, c, c, Fmt3>>, TAB)

\* the lines input files are made of, without their line ends
Bodies ==
    { <<"#", "h">>,
      <<>>,
      ShortRow,
      PassRow,
      Row(Fmt3, join(<<Het10, <<"2", "0">>, <<"3", "0">> >>, ":")),
      Row(Fmt3, join(<<Het01, <<"2", "1">>, <<"2", "9">> >>, ":")),
      Row(Fmt3, join(<<<<"1", "|", "1">>, <<"2", "1">>, <<"3", "0">> >>, ":")),
      Row(Fmt3, join(<<<<".", "/", ".">>, <<"2", "1">>, <<"3", "0">> >>, ":")),
      Row(join(<<DP, GQ>>, ":"), join(<<<<"2", "1">>, <<"3", "0">> >>, ":")),
      Row(Fmt3, join(<<Het01, <<Arabic2, Arabic1>>, <<"3", "0">> >>, ":")),
      Row(Fmt3, join(<<Het01, <<Super2>>, <<"3", "0">> >>, ":")),
      Row(Fmt3, join(<<Het01, <<"2", "1">> >>, ":")),
      <<BadByte>> \o Row(Fmt3, join(<<Het10, <<"3", "0">>, <<"9", "9">> >>, ":")),
      Row(Fmt3, join(<<Het01, <<"2", "1">>, <<"3", "0">> >>, ":")) \o <<TAB>> \o c }

\* the line ends of a file, and whether its last line has one
Eols == {<<LF>>, <<CR, LF>>}

RECURSIVE Stream(_, _, _)
Stream(bodies, eol, final) ==
    IF bodies = <<>> THEN <<>>
    ELSE IF Len(bodies) = 1 THEN bodies[1] \o (IF final THEN eol ELSE <<>>)
    ELSE bodies[1] \o eol \o Stream(Tail(bodies), eol, final)

\* the records of the docstring of filter_one_GZ.py
ScenarioHeader ==
    join(<< <<"#","C","H","R","O","M">>, <<"P","O","S">>, <<"I","D">>, <<"R","E","F">>,
            <<"A","L","T">>, <<"Q","U","A","L">>, <<"F","I","L","T","E","R">>,
            <<"I","N","F","O">>, <<"F","O","R","M","A","T">>,
            <<"6","i","e","g","z","y","V","R">> >>, TAB)
ScenarioRow(pos, qual, sample) ==
    join(<< <<"c","h","r","1">>, pos, <<".">>, <<"G">>, <<"A">>, qual,
            <<"P","A","S","S">>, <<".">>, <<"G","T",":","A","D",":","D","P",":","G","Q">>,
            sample >>, TAB)
ScenarioRow1 ==
    ScenarioRow(<<"4","9","2","7","2">>, <<"1","4","8",".","7","7">>,
                <<"1","|","0",":","1","4",",","7",":","2","1",":","9","9">>)
ScenarioRow2 ==
    ScenarioRow(<<"7","3","2","0","2","1">>, <<"2","6",".","7","8">>,
                <<"0","|","1",":","1","5",",","3",":","1","8",":","5","5">>)
ScenarioRow3 ==
    ScenarioRow(<<"8","7","3","5","4","2">>, <<"6","5","9",".","7","7">>,
                <<"1","|","1",":","0",",","1","6",":","1","6",":","4","8">>)
Scenario ==
    Stream(<<ScenarioHeader, ScenarioRow1, ScenarioRow2, ScenarioRow3>>, <<LF>>, TRUE)

\* a passing record, a truncated record, a header in mid-file, a failing record
Mixed ==
    Stream(<<PassRow, ShortRow, <<"#", "h">>,
             Row(Fmt3, join(<<Het10, <<"2", "0">>, <<"3", "0">> >>, ":"))>>, <<LF>>, TRUE)

\* records whose GT is ".", ".|.", "./.", absent (no GT key), unphased "0/1",
\* and a passing record
GTRow(gt) == Row(Fmt3, join(<<gt, <<"2", "1">>, <<"3", "0">> >>, ":"))
NoGTRow == Row(join(<<DP, GQ>>, ":"), join(<<<<"2", "1">>, <<"3", "0">> >>, ":"))
MissingGTs ==
    Stream(<<GTRow(<<".">>), GTRow(<<".", "|", ".">>), GTRow(<<".", "/", ".">>),
             NoGTRow, GTRow(<<"0", "/", "1">>), PassRow>>, <<LF>>, TRUE)

Streams ==
    { Stream(b, eol, final) :
        b \in UNION {[1..n -> Bodies] : n \in 0..MaxLines},
        eol \in Eols, final \in BOOLEAN }
    \cup {Scenario, Mixed, MissingGTs}

(* ----------------- the other commands, while idle -------------------- *)

PIdle == call = [fn |-> "none", arg |-> Absent] /\ ret = "pending"
BIdle ==
    /\ cohorts = <<>> /\ ci = 0 /\ si = 0 /\ rows = <<>> /\ tsv = <<>>
    /\ bpc = "idle" /\ bexc = "none"

(* ------------------ the per-file command: main ----------------------- *)

Counters ==
    [n_records |-> n_records, gt_missing |-> gt_missing, after_gt |-> after_gt,
     after_dp |-> after_dp, after_gq |-> after_gq]

SetCounters(k) ==
    /\ n_records' = k.n_records /\ gt_missing' = k.gt_missing
    /\ after_gt' = k.after_gt /\ after_dp' = k.after_dp /\ after_gq' = k.after_gq

FInit ==
    /\ argc \in {2, 3}
    /\ in_exists \in BOOLEAN
    /\ fin \in (IF argc = 3 /\ in_exists THEN Streams ELSE {<<>>})
    /\ rest = <<>> /\ fin_open = FALSE /\ fout_open = FALSE
    /\ out_dir = FALSE /\ fout = <<>> /\ out_mtime = -1
    /\ n_records = 0 /\ gt_missing = 0 /\ after_gt = 0 /\ after_dp = 0 /\ after_gq = 0
    /\ counts = <<>> /\ pc = "start" /\ exc = "none" /\ status = -1 /\ diag = ""
    /\ now = 0 /\ run = "first" /\ prev = <<>>

FIdle ==
    /\ argc = 0 /\ in_exists = FALSE /\ fin = <<>>
    /\ rest = <<>> /\ fin_open = FALSE /\ fout_open = FALSE
    /\ out_dir = FALSE /\ fout = <<>> /\ out_mtime = -1
    /\ n_records = 0 /\ gt_missing = 0 /\ after_gt = 0 /\ after_dp = 0 /\ after_gq = 0
    /\ counts = <<>> /\ pc = "idle" /\ exc = "none" /\ status = -1 /\ diag = ""
    /\ now = 0 /\ run = "first" /\ prev = <<>>

\* main ends: what it printed and the exit status handed to sys.exit
Exit(d, st) == diag' = d /\ status' = st /\ pc' = "exited"

\* filter_and_count left by exception e with no "with" block around the
\* streams: what is open stays open
Raise_no_close(e) ==
    /\ exc' = e /\ UNCHANGED <<fin_open, fout_open>> /\ counts' = <<>>
    /\ IF IsOSError(e) THEN Exit("I/O failure", 3) ELSE Exit("Traceback", 1)

\* filter_and_count is left by exception e with both streams closed, and main
\* handles it: "except OSError" returns 3, anything else ends the interpreter
\* with a traceback and exit status 1
Raise(e) ==
    /\ exc' = e /\ fin_open' = FALSE /\ fout_open' = FALSE /\ counts' = <<>>
    /\ IF IsOSError(e) THEN Exit("I/O failure", 3) ELSE Exit("Traceback", 1)

\* len(sys.argv) != 3: usage_and_exit
main_usage ==
    /\ pc = "start" /\ argc # 3
    /\ Exit("Usage", 1)
    /\ UNCHANGED <<argc, in_exists, fin, rest, fin_open, fout_open, out_dir, fout,
                   out_mtime, n_records, gt_missing, after_gt, after_dp, after_gq,
                   counts, exc, now, run, prev, pvars, bvars>>

\* not in_gz.exists()
main_not_found ==
    /\ pc = "start" /\ argc = 3 /\ ~in_exists
    /\ Exit("Input not found", 2)
    /\ UNCHANGED <<argc, in_exists, fin, rest, fin_open, fout_open, out_dir, fout,
                   out_mtime, n_records, gt_missing, after_gt, after_dp, after_gq,
                   counts, exc, now, run, prev, pvars, bvars>>

\* filter_and_count up to the loop: the counters, mkdir, both streams opened;
\* opening the output for writing writes the gzip header, MTIME the clock
open_streams ==
    /\ pc = "start" /\ argc = 3 /\ in_exists
    /\ SetCounters(zero_counters(Counters))
    /\ out_dir' = TRUE
    /\ fin_open' = TRUE /\ rest' = fin
    /\ fout_open' = TRUE /\ fout' = open_wt(fout) /\ out_mtime' = now
    /\ counts' = <<>> /\ exc' = "none" /\ pc' = "loop"
    /\ UNCHANGED <<argc, in_exists, fin, status, diag, now, run, prev, pvars, bvars>>

\* mkdir, or the opening of one of the streams, raises an OSError: after a
\* failed mkdir nothing is opened; when the output cannot be opened the input,
\* opened first, is closed again
open_fails ==
    /\ pc = "start" /\ argc = 3 /\ in_exists
    /\ \E at \in {"mkdir", "input", "output"} :
         /\ out_dir' = (out_dir \/ at # "mkdir")
         /\ SetCounters(zero_counters(Counters))
         /\ Raise("PermissionError")
    /\ UNCHANGED <<argc, in_exists, fin, rest, fout, out_mtime, now, run, prev,
                   pvars, bvars>>

\* the iteration of the loop on the next line, when it raises nothing
Step(kind) ==
    /\ pc = "loop" /\ rest # <<>>
    /\ LET r == readline(rest)
           it == loop_body(Counters, r.line)
       IN /\ kind = (IF startswith(r.line, "#") THEN "header"
                     ELSE IF it.c.n_records = n_records THEN "short" ELSE "data")
          /\ it.exc = "none"
          /\ rest' = r.rest
          /\ SetCounters(it.c)
          /\ fout' = (IF it.write THEN write(fout, r.line) ELSE fout)
    /\ UNCHANGED <<argc, in_exists, fin, fin_open, fout_open, out_dir, out_mtime,
                   counts, pc, exc, status, diag, now, run, prev, pvars, bvars>>

header_line == Step("header")
short_line == Step("short")
data_line == Step("data")

\* the iteration of the loop on the next line, when a predicate raises
data_line_raises ==
    /\ pc = "loop" /\ rest # <<>>
    /\ LET r == readline(rest)
           it == loop_body(Counters, r.line)
       IN /\ it.exc # "none"
          /\ rest' = r.rest
          /\ SetCounters(it.c)
          /\ Raise(it.exc)
    /\ UNCHANGED <<argc, in_exists, fin, out_dir, fout, out_mtime, now, run, prev,
                   pvars, bvars>>

\* what reading the compressed input or writing the output can raise: a disk
\* error (OSError), a file that ends before the end-of-stream marker
\* (EOFError), corrupt compressed data (zlib.error)
IOFaults == {"OSError", "EOFError", "zlib.error"}

io_fault ==
    /\ pc = "loop"
    /\ \E e \in IOFaults : Raise(e)
    /\ UNCHANGED <<argc, in_exists, fin, rest, out_dir, fout, out_mtime,
                   n_records, gt_missing, after_gt, after_dp, after_gq,
                   now, run, prev, pvars, bvars>>

\* the stream ends: both streams are closed, the counts returned and printed
end_of_stream ==
    /\ pc = "loop" /\ rest = <<>>
    /\ fin_open' = FALSE /\ fout_open' = FALSE
    /\ counts' = <<counts_dict(Counters)>>
    /\ Exit("OK", 0)
    /\ UNCHANGED <<argc, in_exists, fin, rest, out_dir, fout, out_mtime,
                   n_records, gt_missing, after_gt, after_dp, after_gq,
                   exc, now, run, prev, pvars, bvars>>

\* the command is run once more on the same paths, at once or a second later
rerun ==
    /\ pc = "exited" /\ run = "first" /\ exc \notin IOFaults /\ ~IsOSError(exc)
    /\ prev' = <<[fout |-> fout, out_mtime |-> out_mtime, counts |-> counts,
                  exc |-> exc, status |-> status]>>
    /\ run' = "second" /\ pc' = "start" /\ status' = -1 /\ diag' = ""
    /\ now' \in {now, now + 1}
    /\ UNCHANGED <<argc, in_exists, fin, rest, fin_open, fout_open, out_dir, fout,
                   out_mtime, n_records, gt_missing, after_gt, after_dp, after_gq,
                   counts, exc, pvars, bvars>>

Init == FInit /\ PIdle /\ BIdle

Next ==
    \/ main_usage \/ main_not_found \/ open_streams \/ open_fails
    \/ header_line \/ short_line \/ data_line \/ data_line_raises
    \/ io_fault \/ end_of_stream \/ rerun

Spec == Init /\ [][Next]_vars

(* ---------------------- one call of a predicate --------------------- *)

PredChars == {"0", "1", "2", "3", "9", ".", "|", Arabic2, Super2}
PredArgs ==
    {Absent} \cup {Some(s) : s \in UNION {[1..k -> PredChars] : k \in 0..MaxLen}}

PInit ==
    /\ FIdle /\ BIdle
    /\ call \in {[fn |-> f, arg |-> a] :
                   f \in {"is_heterozygous", "dp_passes", "gq_passes"}, a \in PredArgs}
    /\ ret = "pending"

call_is_heterozygous ==
    /\ ret = "pending" /\ call.fn = "is_heterozygous"
    /\ ret' = (IF is_heterozygous(call.arg) THEN "True" ELSE "False")
    /\ UNCHANGED <<call, fvars, bvars>>

call_dp_passes ==
    /\ ret = "pending" /\ call.fn = "dp_passes"
    /\ ret' = dp_passes(call.arg)
    /\ UNCHANGED <<call, fvars, bvars>>

call_gq_passes ==
    /\ ret = "pending" /\ call.fn = "gq_passes"
    /\ ret' = gq_passes(call.arg)
    /\ UNCHANGED <<call, fvars, bvars>>

PNext == call_is_heterozygous \/ call_dp_passes \/ call_gq_passes

SpecPred == PInit /\ [][PNext]_vars

(* -------------------- one call of extract_gt_dp_gq ------------------- *)

\* the tokens FORMAT and the sample column are made of
KeyTokens == {GT, DP, GQ, <<"A", "D">>}
ValTokens == {Het01, <<"2", "1">>, <<>>}
Joined(tokens) == {join(ts, ":") : ts \in UNION {[1..k -> tokens] : k \in 0..MaxKeys}}

\* ret is <<>> until the call returns, then <<the tuple returned>>
EInit ==
    /\ FIdle /\ BIdle
    /\ call \in {[fn |-> "extract_gt_dp_gq", arg |-> [fmt |-> f, sample |-> s]] :
                   f \in Joined(KeyTokens), s \in Joined(ValTokens)}
    /\ ret = <<>>

call_extract_gt_dp_gq ==
    /\ ret = <<>>
    /\ ret' = <<extract_gt_dp_gq(call.arg.fmt, call.arg.sample)>>
    /\ UNCHANGED <<call, fvars, bvars>>

ENext == call_extract_gt_dp_gq

SpecExtract == EInit /\ [][ENext]_vars

(* ---------------------- the batch command: main ---------------------- *)

\* filter_and_count on a whole file: the loop over the unread content s
RECURSIVE filter_lines(_, _, _)
filter_lines(k, out, s) ==
    IF s = <<>> THEN [c |-> k, out |-> out, exc |-> "none"]
    ELSE LET r == readline(s)
             it == loop_body(k, r.line)
         IN IF it.exc # "none" THEN [c |-> it.c, out |-> out, exc |-> it.exc]
            ELSE filter_lines(it.c, IF it.write THEN write(out, r.line) ELSE out, r.rest)

filter_and_count(s) == filter_lines(zero_counters(<<>>), open_wt(<<>>), s)

\* find_sample_gz: the files cohort_dir.glob(f"{sample_id}*.gz") finds, none,
\* one (with its content) or several
SampleStates ==
    {[hits |-> 0, gz |-> <<>>], [hits |-> 1, gz |-> Scenario], [hits |-> 2, gz |-> <<>>]}

BInit ==
    /\ FIdle /\ PIdle
    /\ cohorts \in [1..NCohorts -> [1..NSamples -> SampleStates]]
    /\ ci = 1 /\ si = 1 /\ rows = <<>>
    /\ tsv = [k \in 1..NCohorts |-> <<>>]
    /\ bpc = "cohort" /\ bexc = "none"

\* an exception leaves main: nothing catches it
Abort(e) ==
    /\ bexc' = e /\ bpc' = "aborted"
    /\ UNCHANGED <<cohorts, ci, si, rows, tsv, fvars, pvars>>

\* one file matches: it is filtered and its row appended
sample_filtered ==
    /\ bpc = "cohort" /\ si <= NSamples /\ cohorts[ci][si].hits = 1
    /\ LET r == filter_and_count(cohorts[ci][si].gz) IN
       /\ r.exc = "none"
       /\ rows' = Append(rows, [SampleID |-> si, Cohort |-> ci,
                                counts |-> counts_dict(r.c)])
    /\ si' = si + 1
    /\ UNCHANGED <<cohorts, ci, tsv, bpc, bexc, fvars, pvars>>

\* one file matches and reading or writing it fails
sample_io_fault ==
    /\ bpc = "cohort" /\ si <= NSamples /\ cohorts[ci][si].hits = 1
    /\ \E e \in IOFaults : Abort(e)

\* no file matches: find_sample_gz returns None, and filter_and_count(None,
\* out_gz) raises TypeError in gzip.open
sample_not_found ==
    /\ bpc = "cohort" /\ si <= NSamples /\ cohorts[ci][si].hits = 0
    /\ Abort("TypeError")

\* several files match: find_sample_gz raises RuntimeError
sample_ambiguous ==
    /\ bpc = "cohort" /\ si <= NSamples /\ cohorts[ci][si].hits > 1
    /\ Abort("RuntimeError")

\* the samples of the cohort are done: its table is written; after the last
\* cohort main returns 0
write_cohort_table ==
    /\ bpc = "cohort" /\ si > NSamples
    /\ tsv' = [tsv EXCEPT ![ci] = <<rows>>]
    /\ rows' = <<>>
    /\ IF ci < NCohorts THEN ci' = ci + 1 /\ si' = 1 /\ bpc' = bpc
       ELSE ci' = ci /\ si' = si /\ bpc' = "done"
    /\ UNCHANGED <<cohorts, bexc, fvars, pvars>>

BNext ==
    \/ sample_filtered \/ sample_io_fault \/ sample_not_found
    \/ sample_ambiguous \/ write_cohort_table

SpecBatch == BInit /\ [][BNext]_vars

(* ------------------- what the claims speak about --------------------- *)

\* the lines of a file, as the loop reads them
RECURSIVE Lines(_)
Lines(s) == IF s = <<>> THEN <<>> ELSE LET r == readline(s) IN <<r>> \o Lines(r.rest)

\* the lines of the input the loop has gone through
Processed == SubSeq(Lines(fin), 1, Len(Lines(fin)) - Len(Lines(rest)))

\* the text of a line without its line end, and its tab-separated fields
Body(line) ==
    IF Len(line) > 0 /\ line[Len(line)] = LF THEN SubSeq(line, 1, Len(line) - 1) ELSE line
NumFields(line) == Cardinality({i \in 1..Len(Body(line)) : Body(line)[i] = TAB}) + 1
Field(line, k) == split(Body(line), TAB)[k]

IsHeader(line) == Len(line) > 0 /\ line[1] = "#"

\* a line with ten fields or more whose GT, DP and GQ pass the three predicates
PassesAll(line) ==
    /\ NumFields(line) >= 10
    /\ LET e == extract_gt_dp_gq(Field(line, 9), Field(line, 10))
       IN is_heterozygous(e.gt) /\ dp_passes(e.dp) = "True" /\ gq_passes(e.gq) = "True"

\* the header lines and the passing lines of ls, one after the other
RECURSIVE Selected(_)
Selected(ls) ==
    IF ls = <<>> THEN <<>>
    ELSE (IF IsHeader(ls[1].line) \/ PassesAll(ls[1].line) THEN ls[1].line ELSE <<>>)
         \o Selected(Tail(ls))

\* filter_and_count was left by an error of the environment
IOFailed(e) == e \in IOFaults \/ IsOSError(e)

(* C1: after any prefix of the input, and in the returned counts,          *)
(* After_GQ <= After_DP <= After_GT_Het <= N_Records.                      *)
C1_Funnel ==
    /\ after_gq <= after_dp /\ after_dp <= after_gt /\ after_gt <= n_records
    /\ counts # <<>> =>
         /\ counts[1].After_GQ <= counts[1].After_DP
         /\ counts[1].After_DP <= counts[1].After_GT_Het
         /\ counts[1].After_GT_Het <= counts[1].N_Records

\* counts were returned in which every stage of the funnel lost a record
C1_Witness ==
    /\ counts # <<>>
    /\ counts[1].After_GQ < counts[1].After_DP
    /\ counts[1].After_DP < counts[1].After_GT_Het
    /\ counts[1].After_GT_Het <= counts[1].N_Records

(* C2: for every input stream that is read and written without an I/O     *)
(* error, the output holds every header line of the input and exactly      *)
(* those other lines that have ten fields or more and pass the three       *)
(* predicates.                                                             *)
C2_OutputIsSelection ==
    (pc = "exited" /\ ~IOFailed(exc) /\ diag \in {"OK", "Traceback"})
        => fout = Selected(Lines(fin))

(* C3 as stated: on the header and the three records of the docstring the  *)
(* counts are total 3, het 1, dp 1, gq 1 and the output is the header and   *)
(* the first record.                                                        *)
C3_ScenarioAsStated ==
    (fin = Scenario /\ status = 0) =>
        /\ counts[1].N_Records = 3 /\ counts[1].After_GT_Het = 1
        /\ counts[1].After_DP = 1 /\ counts[1].After_GQ = 1
        /\ fout = ScenarioHeader \o <<LF>> \o ScenarioRow1 \o <<LF>>

(* C3, amended: on the header and the three records of the docstring the   *)
(* counts are total 3, het 2 (the second record, 0|1, is heterozygous and   *)
(* fails on depth), dp 1, gq 1 and the output is the header and the first   *)
(* record.                                                                  *)
C3_Scenario ==
    (fin = Scenario /\ status = 0) =>
        /\ counts[1].N_Records = 3 /\ counts[1].After_GT_Het = 2
        /\ counts[1].After_DP = 1 /\ counts[1].After_GQ = 1
        /\ fout = ScenarioHeader \o <<LF>> \o ScenarioRow1 \o <<LF>>

C3_Witness == fin = Scenario /\ status = 0 /\ run = "first"

\* the bytes of the first line of the unread input s, its line end included: a
\* line ends at LF, or at a CR that no LF follows
RawLine(s) ==
    LET ends == {i \in 1..Len(s) :
                    \/ s[i] = LF
                    \/ s[i] = CR /\ ~(i < Len(s) /\ s[i + 1] = LF)}
    IN IF ends = {} THEN s ELSE SubSeq(s, 1, Min(ends))

\* a raw line as text: each invalid byte replaced by U+FFFD, its line end
\* (LF, CR LF or CR) replaced by LF, no line end when it has none
Normalised(p) ==
    LET n == Len(p)
        m == IF n >= 2 /\ p[n - 1] = CR /\ p[n] = LF THEN n - 2
             ELSE IF n >= 1 /\ p[n] \in {LF, CR} THEN n - 1
             ELSE n
    IN [i \in 1..m |-> IF p[i] = BadByte THEN Replacement ELSE p[i]]
       \o (IF m < n THEN <<LF>> ELSE <<>>)

(* C4 as stated: every line written to the output is identical, character  *)
(* for character and line end included, to the input line it comes from.    *)
C4_VerbatimAsStated ==
    [][(pc = "loop" /\ fout' # fout) => fout' = fout \o RawLine(rest)]_vars

(* C4, amended: every line written to the output is the input line it       *)
(* comes from with each undecodable byte replaced by U+FFFD and its line    *)
(* end (LF, CR LF or CR) written as LF; a last line without a line end is   *)
(* written without one; nothing else is rewritten.                          *)
C4_Normalised ==
    [][(pc = "loop" /\ fout' # fout) => fout' = fout \o Normalised(RawLine(rest))]_vars

\* a file with CR LF line ends and an undecodable byte was filtered, and the
\* line with that byte written
C4_Witness ==
    /\ status = 0
    /\ \E i \in 1..Len(fin) : fin[i] = CR
    /\ \E i \in 1..Len(fout) : fout[i] = Replacement

C7_NeverRaises == exc # "ValueError"

(* C8: with two path arguments the command ends in one of three outcomes:   *)
(* status 2 and "Input not found" when the input does not exist; status 3   *)
(* and "I/O failure" when a read or write error occurs during filtering     *)
(* (disk, permissions, truncated or corrupt compressed stream); status 0    *)
(* otherwise. Runs that a predicate ends with a ValueError (C7) are left    *)
(* aside.                                                                   *)
C8_ExitOutcomes ==
    (pc = "exited" /\ argc = 3 /\ exc # "ValueError") =>
        /\ ~in_exists => (status = 2 /\ diag = "Input not found")
        /\ (in_exists /\ IOFailed(exc)) => (status = 3 /\ diag = "I/O failure")
        /\ (in_exists /\ ~IOFailed(exc)) => status = 0

\* both invocations ended, neither by an error of the environment
RanTwice == run = "second" /\ pc = "exited" /\ ~IOFailed(exc)

(* C10 as stated: running twice on the same input with the same output path *)
(* yields a byte-identical output file and identical counts.                *)
C10_ByteIdenticalAsStated ==
    RanTwice =>
        /\ fout = prev[1].fout /\ out_mtime = prev[1].out_mtime
        /\ counts = prev[1].counts /\ exc = prev[1].exc

(* C10, amended: running twice on the same input with the same output path  *)
(* yields the same decompressed output and identical counts (the counters   *)
(* start at zero on every invocation and nothing of one invocation          *)
(* influences the next); the compressed files can differ in the             *)
(* modification time of the gzip header.                                    *)
C10_Idempotent ==
    RanTwice =>
        /\ fout = prev[1].fout /\ counts = prev[1].counts /\ exc = prev[1].exc
        /\ status = prev[1].status

\* a second run a second later, which wrote records and counted them
C10_Witness ==
    /\ RanTwice /\ status = 0 /\ out_mtime # prev[1].out_mtime
    /\ counts[1].After_GQ > 0 /\ counts[1].N_Records > counts[1].After_GQ
    /\ fout # <<>>

\* the strings made of ASCII digits only, not empty
AsciiNumber(a) ==
    a.present /\ Len(a.s) > 0 /\ \A i \in 1..Len(a.s) : a.s[i] \in AsciiDigits

(* C6: dp_passes(dp) returns true exactly when dp is present, not empty,    *)
(* made of ASCII digits only and of a value above 20; for every other       *)
(* string, digits outside ASCII included, it returns false.                 *)
C6_DpPasses ==
    (call.fn = "dp_passes" /\ ret # "pending") =>
        ret = (IF AsciiNumber(call.arg) /\ int(call.arg.s) > 20 THEN "True" ELSE "False")

(* C9: in the batch run a sample whose input file does not exist never      *)
(* aborts the run: the file is skipped and the remaining samples and        *)
(* cohorts are processed.                                                   *)
C9_NotFoundNeverAborts ==
    ~(bpc = "aborted" /\ cohorts[ci][si].hits = 0)

\* the GT of a line of ten fields or more is absent or ".", "./." or ".|."
MissingGT(line) ==
    LET g == extract_gt_dp_gq(Field(line, 9), Field(line, 10)).gt
    IN \/ ~g.present
       \/ g.s = <<".">> \/ g.s = <<".", "/", ".">> \/ g.s = <<".", "|", ".">>

(* C11: for a data line of ten fields or more GT_Missing is incremented     *)
(* exactly when the extracted GT is absent or ".", "./." or ".|."; such a   *)
(* line still increments N_Records, fails the heterozygosity test, so it    *)
(* increments none of After_GT_Het, After_DP, After_GQ and is not written;  *)
(* in every state GT_Missing + After_GT_Het <= N_Records.                   *)
C11_MissingGT ==
    /\ [](gt_missing + after_gt <= n_records)
    /\ [][(pc = "loop" /\ rest' # rest) =>
            LET line == Normalised(RawLine(rest)) IN
            (~IsHeader(line) /\ NumFields(line) >= 10) =>
                /\ gt_missing' = gt_missing + (IF MissingGT(line) THEN 1 ELSE 0)
                /\ MissingGT(line) =>
                     /\ n_records' = n_records + 1
                     /\ <<after_gt, after_dp, after_gq>>' = <<after_gt, after_dp, after_gq>>
                     /\ fout' = fout]_vars

\* the four records with a missing GT, the unphased record and the passing
\* record have been read: four are counted missing, one passed, one written
C11_Witness ==
    /\ fin = MissingGTs /\ pc = "loop" /\ rest = <<>>
    /\ n_records = 6 /\ gt_missing = 4 /\ after_gt = 1 /\ after_gq = 1
    /\ fout = PassRow \o <<LF>>

(* C12: on every exit path of filter_and_count (end of the stream, failure *)
(* to open the input or the output, read or write error in mid-stream) no   *)
(* stream the call opened is open when it returns or raises; and the        *)
(* parent directory of the output path exists by the time the output        *)
(* stream is open.                                                          *)
C12_StreamsClosed ==
    /\ pc # "loop" => (~fin_open /\ ~fout_open)
    /\ fout_open => out_dir

\* the input ended before its end-of-stream marker after some lines were read
\* and some written: the call was left by EOFError with both streams closed
C12_Witness ==
    /\ pc = "exited" /\ exc = "EOFError"
    /\ rest # <<>> /\ rest # fin /\ fout # <<>>
    /\ ~fin_open /\ ~fout_open /\ out_dir

\* the tokens of a colon-separated string: the parts between the colons
Tokens(s) ==
    LET cut == <<0>> \o [i \in 1..Cardinality({j \in 1..Len(s) : s[j] = ":"}) |->
                           CHOOSE p \in 1..Len(s) :
                               /\ s[p] = ":"
                               /\ Cardinality({j \in 1..p : s[j] = ":"}) = i]
               \o <<Len(s) + 1>>
    IN [i \in 1..Len(cut) - 1 |-> SubSeq(s, cut[i] + 1, cut[i + 1] - 1)]

\* v is what the claim has extract_gt_dp_gq return for key k: the value at
\* the last position, among those that keys and values share, where the key
\* is k; absent when there is none
ExtractsLast(keys, vals, k, v) ==
    LET both == {i \in 1..Len(keys) : i <= Len(vals)}
        hit == {i \in both : keys[i] = k}
    IN /\ v.present <=> hit # {}
       /\ hit # {} => \E i \in hit : v.s = vals[i] /\ \A j \in hit : j <= i
       /\ hit = {} => v = Absent

(* C13: extract_gt_dp_gq(fmt, sample) splits both arguments on ':' and      *)
(* pairs the tokens index for index over the positions both have; for each  *)
(* of GT, DP, GQ it returns the value paired with the last occurrence of    *)
(* the key among those positions, and None when the key does not occur      *)
(* there, also when it stands beyond the end of the values.                 *)
C13_ExtractLastWins ==
    ret # <<>> =>
        LET keys == Tokens(call.arg.fmt)
            vals == Tokens(call.arg.sample)
        IN /\ ExtractsLast(keys, vals, GT, ret[1].gt)
           /\ ExtractsLast(keys, vals, DP, ret[1].dp)
           /\ ExtractsLast(keys, vals, GQ, ret[1].gq)

\* FORMAT GT:GT:DP with sample 0|1:21 : the second GT wins and DP, which
\* stands beyond the end of the values, is absent
C13_Witness ==
    /\ call.arg.fmt = join(<<GT, GT, DP>>, ":")
    /\ call.arg.sample = join(<<Het01, <<"2", "1">> >>, ":")
    /\ ret = <<[gt |-> Some(<<"2", "1">>), dp |-> Absent, gq |-> Absent]>>

====
